---- MODULE Spec2Model ----
(***************************************************************************)
(* Model of the data-ingestion pipelines (app/ingestao_csv.py,             *)
(* app/ingestao_api.py) and their helpers (utils/casting.py,               *)
(* utils/validate.py, utils/metadata.py).                                  *)
(*                                                                         *)
(* Text is a sequence of one-character strings.  A cell of a column is a   *)
(* record [k, n, e, s]: k is "null" (NaN / <NA>), "none" (Python's None in *)
(* an object column), "str" (text s), "int" (the integer n), "float" (the  *)
(* decimal n / 10^e, kept normalised), "nzero" (the float -0.0) or "inf"   *)
(* (the infinity of sign n).                                               *)
(* A dataset (DataFrame) is a sequence of columns [name, dtype, vals] in   *)
(* insertion order.                                                        *)
(***************************************************************************)
EXTENDS Integers, Sequences, FiniteSets, TLC

VARIABLES
    heap,       \* SpecCast/SpecValidate: object id -> DataFrame
    arg,        \* id of the DataFrame object the caller passes in
    df0,        \* snapshot of heap[arg] taken at call time
    ret,        \* id of the object the call returned (0: nothing returned)
    schema,     \* [required, integer_fields, string_fields, float_fields]
    err,        \* the exception the last call raised ([kind, cols]) or NoErr
    op,         \* the last operation that ran ("none" before any)
    fs,         \* path -> byte content of the data file, or NoFile
    mf,         \* path -> manifest written at path + ".manifest.json", or NoFile
    fs0,        \* snapshot of fs taken at call time
    mf0,        \* snapshot of mf taken at call time
    env,        \* the environment of the call or run (inputs, injected I/O faults)
    pc,         \* position of the running pipeline in main()
    run         \* what the run did: [calls, written, manifested, exit]

vars == <<heap, arg, df0, ret, schema, err, op, fs, mf, fs0, mf0, env, pc, run>>

----------------------------------------------------------------------------
(* Bounds of the model *)

MaxRows == 2

\* the chunk_size _md5 is called with (the code's default is 1 << 20 bytes),
\* scaled to the files of the model so that they span several chunks
ChunkSize == 4

\* the largest `retries` of the API configuration
MaxRetries == 1

----------------------------------------------------------------------------
(* Text and cells *)

Digit == {"0", "1", "2", "3", "4", "5", "6", "7", "8", "9"}

DigitVal(c) ==
    CASE c = "0" -> 0 [] c = "1" -> 1 [] c = "2" -> 2 [] c = "3" -> 3 [] c = "4" -> 4
      [] c = "5" -> 5 [] c = "6" -> 6 [] c = "7" -> 7 [] c = "8" -> 8 [] OTHER -> 9

Null == [k |-> "null", n |-> 0, e |-> 0, s |-> <<>>]
None_ == [k |-> "none", n |-> 0, e |-> 0, s |-> <<>>]
Str(t) == [k |-> "str", n |-> 0, e |-> 0, s |-> t]
Int_(i) == [k |-> "int", n |-> i, e |-> 0, s |-> <<>>]

RECURSIVE Pow10(_)
Pow10(e) == IF e = 0 THEN 1 ELSE 10 * Pow10(e - 1)

\* a decimal n / 10^e with trailing zeros of the fraction removed
RECURSIVE Float(_, _)
Float(n, e) ==
    IF e > 0 /\ n % 10 = 0 THEN Float(n \div 10, e - 1)
    ELSE [k |-> "float", n |-> n, e |-> e, s |-> <<>>]

\* a float of sign sgn: the zero of negative sign is -0.0
Signed(sgn, c) ==
    IF sgn < 0 /\ c.k = "float" /\ c.n = 0
    THEN [k |-> "nzero", n |-> 0, e |-> 0, s |-> <<>>] ELSE c

IsWhole(c) == c.k \in {"int", "nzero"} \/ (c.k = "float" /\ c.e = 0)

RECURSIVE DigitsVal(_)
DigitsVal(t) ==
    IF t = <<>> THEN 0
    ELSE 10 * DigitsVal(SubSeq(t, 1, Len(t) - 1)) + DigitVal(t[Len(t)])

AllDigits(t) == \A i \in 1..Len(t) : t[i] \in Digit

RECURSIVE NatText(_)
NatText(n) ==
    (IF n < 10 THEN <<>> ELSE NatText(n \div 10))
        \o <<(<<"0", "1", "2", "3", "4", "5", "6", "7", "8", "9">>)[(n % 10) + 1]>>

IntText(n) == IF n < 0 THEN <<"-">> \o NatText(-n) ELSE NatText(n)

RECURSIVE ZeroPad(_, _)
ZeroPad(t, w) == IF Len(t) >= w THEN t ELSE ZeroPad(<<"0">> \o t, w)

\* str.lstrip(chars) and str.rstrip(chars)
RECURSIVE LStrip(_, _)
LStrip(t, chars) ==
    IF t # <<>> /\ Head(t) \in chars THEN LStrip(Tail(t), chars) ELSE t

RECURSIVE RStrip(_, _)
RStrip(t, chars) ==
    IF t # <<>> /\ t[Len(t)] \in chars THEN RStrip(SubSeq(t, 1, Len(t) - 1), chars)
    ELSE t

\* str.strip(): whitespace goes from both ends
Strip(t) ==
    LStrip(RStrip(t, {" ", "\t", "\n", "\r", "\f"}), {" ", "\t", "\n", "\r", "\f"})

\* Python's str() of a float: the shortest digits, in exponent form below
\* 1e-4 and from 1e16 on; x is the decimal exponent, d the digits
FloatText(c) ==
    LET a == IF c.n < 0 THEN -c.n ELSE c.n
        sign == IF c.n < 0 THEN <<"-">> ELSE <<>>
        x == Len(NatText(a)) - c.e - 1
        d == RStrip(NatText(a), {"0"})
    IN  IF c.k = "inf" THEN sign \o <<"i", "n", "f">>
        ELSE IF c.k = "nzero" THEN <<"-", "0", ".", "0">>
        ELSE IF a # 0 /\ (x < -4 \/ x >= 16)
        THEN sign \o <<Head(d)>> \o (IF Len(d) > 1 THEN <<".">> \o Tail(d) ELSE <<>>)
                  \o <<"e", IF x < 0 THEN "-" ELSE "+">>
                  \o ZeroPad(NatText(IF x < 0 THEN -x ELSE x), 2)
        ELSE IF c.e = 0 THEN sign \o NatText(a) \o <<".", "0">>
        ELSE sign \o NatText(a \div Pow10(c.e)) \o <<".">>
                  \o ZeroPad(NatText(a % Pow10(c.e)), c.e)

Replace(t, from, to) ==
    [i \in 1..Len(t) |-> IF t[i] = from THEN to ELSE t[i]]

\* str.replace('^"|"$', '', regex=True)
StripQuotes(t) ==
    LET a == IF t # <<>> /\ Head(t) = "\"" THEN Tail(t) ELSE t
    IN  IF a # <<>> /\ a[Len(a)] = "\"" THEN SubSeq(a, 1, Len(a) - 1) ELSE a

\* the position of the first of chars in t, 0 when there is none
RECURSIVE IndexOf(_, _, _)
IndexOf(t, chars, i) ==
    IF i > Len(t) THEN 0 ELSE IF t[i] \in chars THEN i ELSE IndexOf(t, chars, i + 1)

\* str.lower() on ASCII text
Lower(t) ==
    [i \in 1..Len(t) |->
        LET u == IndexOf(<<"A", "B", "C", "D", "E", "F", "G", "H", "I", "J", "K", "L", "M",
                           "N", "O", "P", "Q", "R", "S", "T", "U", "V", "W", "X", "Y", "Z">>,
                         {t[i]}, 1)
        IN  IF u = 0 THEN t[i]
            ELSE (<<"a", "b", "c", "d", "e", "f", "g", "h", "i", "j", "k", "l", "m",
                    "n", "o", "p", "q", "r", "s", "t", "u", "v", "w", "x", "y", "z">>)[u]]

\* Series.astype(str) on one cell of a column of that dtype: a missing value
\* is <NA> in a nullable integer column and NaN elsewhere, None is 'None'
AsStr(c, dtype) ==
    CASE c.k = "null" ->
            IF dtype = "Int64" THEN <<"<", "N", "A", ">">> ELSE <<"n", "a", "n">>
      [] c.k = "none" -> <<"N", "o", "n", "e">>
      [] c.k = "str" -> c.s
      [] c.k = "int" -> IntText(c.n)
      [] OTHER -> FloatText(c)

\* digits[.digits] of sign sgn, dot the position of the point (0: none): an
\* integer without a point, a float with one, Null when there is no digit or
\* another character
ParseUnsigned(sgn, u, dot) ==
    LET ip == IF dot = 0 THEN u ELSE SubSeq(u, 1, dot - 1)
        fp == IF dot = 0 THEN <<>> ELSE SubSeq(u, dot + 1, Len(u))
    IN  IF Len(ip) + Len(fp) = 0 \/ ~AllDigits(ip) \/ ~AllDigits(fp) THEN Null
        ELSE IF dot = 0 THEN Int_(sgn * DigitsVal(ip))
        ELSE Signed(sgn, Float(sgn * DigitsVal(ip \o fp), Len(fp)))

\* the number m times ten to the exponent written in xt ([+-]digits): a float
Scaled(m, xt) ==
    LET neg == xt # <<>> /\ Head(xt) = "-"
        d == IF xt # <<>> /\ Head(xt) \in {"+", "-"} THEN Tail(xt) ELSE xt
    IN  IF m = Null \/ d = <<>> \/ ~AllDigits(d) THEN Null
        ELSE IF neg THEN Float(m.n, m.e + DigitsVal(d))
        ELSE IF DigitsVal(d) >= m.e THEN Float(m.n * Pow10(DigitsVal(d) - m.e), 0)
        ELSE Float(m.n, m.e - DigitsVal(d))

\* digits[.digits][e[+-]digits], x the position of the exponent mark
ParseExp(sgn, u, x) ==
    IF x = 0 THEN ParseUnsigned(sgn, u, IndexOf(u, {"."}, 1))
    ELSE Signed(sgn, Scaled(ParseUnsigned(sgn, SubSeq(u, 1, x - 1),
                                          IndexOf(SubSeq(u, 1, x - 1), {"."}, 1)),
                            SubSeq(u, x + 1, Len(u))))

\* the finite number of sign sgn written in u, the text after the sign:
\* whitespace after the number is skipped, any other character makes it NaN
ParseFinite(sgn, u) ==
    ParseExp(sgn, RStrip(u, {" ", "\t", "\n", "\r", "\f"}),
             IndexOf(RStrip(u, {" ", "\t", "\n", "\r", "\f"}), {"e", "E"}, 1))

\* pd.to_numeric(..., errors="coerce") on one cell of text: [+-]inf or
\* [+-]infinity in any case and nothing around it, or whitespace,
\* [+-]digits[.digits][e[+-]digits], whitespace; any other text is NaN
ParseNumeric(t) ==
    LET lead == LStrip(t, {" ", "\t", "\n", "\r", "\f"})
        signed == lead # <<>> /\ Head(lead) \in {"+", "-"}
        sgn == IF signed /\ Head(lead) = "-" THEN -1 ELSE 1
        u == IF signed THEN Tail(lead) ELSE lead
    IN  IF lead = t /\ Lower(u) \in {<<"i", "n", "f">>,
                                     <<"i", "n", "f", "i", "n", "i", "t", "y">>}
        THEN [k |-> "inf", n |-> sgn, e |-> 0, s |-> <<>>]
        ELSE ParseFinite(sgn, u)

\* pd.to_numeric on one value: text is parsed, None is NaN, a number is kept
ToNumeric(c) ==
    IF c.k = "str" THEN ParseNumeric(c.s) ELSE IF c.k = "none" THEN Null ELSE c

----------------------------------------------------------------------------
(* DataFrames *)

NoErr == [kind |-> "none", cols |-> <<>>]
Raise(kind, cols) == [kind |-> kind, cols |-> cols]

Series(dtype, vals) == [dtype |-> dtype, vals |-> vals]
Column(name, dtype, vals) == [name |-> name, dtype |-> dtype, vals |-> vals]

Columns(df) == [i \in 1..Len(df) |-> df[i].name]
HasCol(df, c) == \E i \in 1..Len(df) : df[i].name = c
ColIndex(df, c) == CHOOSE i \in 1..Len(df) : df[i].name = c
GetCol(df, c) == LET x == df[ColIndex(df, c)] IN Series(x.dtype, x.vals)
NRows(df) == IF df = <<>> THEN 0 ELSE Len(df[1].vals)

\* df[col] = series, for a column that is in df
SetCol(df, c, ser) ==
    [df EXCEPT ![ColIndex(df, c)] = Column(c, ser.dtype, ser.vals)]

\* numpy's dtype.kind / the extension dtype's kind
DtypeKind(dtype) ==
    CASE dtype = "object" -> "O"
      [] dtype = "Int64" -> "i"
      [] dtype = "int64" -> "i"
      [] dtype = "float64" -> "f"
      [] dtype = "float32" -> "f"
      [] OTHER -> "b"

IsNumericDtype(dtype) == dtype # "object"

----------------------------------------------------------------------------
(* utils/casting.py *)

\* pd.to_numeric(series, errors="coerce"): a numeric series is returned as it
\* is; of an object series the values are parsed, into int64 when every one is
\* an integer and into float64 otherwise, where an integer text is the float
\* read from it (the zero of "-0" is -0.0)
to_numeric(series) ==
    IF IsNumericDtype(series.dtype) THEN series
    ELSE IF \A i \in 1..Len(series.vals) : ToNumeric(series.vals[i]).k = "int"
    THEN Series("int64", [i \in 1..Len(series.vals) |-> ToNumeric(series.vals[i])])
    ELSE Series("float64",
                [i \in 1..Len(series.vals) |->
                    LET c == series.vals[i]
                        v == ToNumeric(c)
                    IN  IF v.k # "int" THEN v
                        ELSE Signed(IF c.k = "str" /\ \E j \in 1..Len(c.s) : c.s[j] = "-"
                                    THEN -1 ELSE 1,
                                    Float(v.n, 0))])

\* a series cast; raised is the TypeError of astype("Int64") on a value
\* that is not a whole number
AsInt64(num) ==
    [raised |-> \E i \in 1..Len(num) : num[i].k # "null" /\ ~IsWhole(num[i]),
     dtype |-> "Int64",
     vals |-> [i \in 1..Len(num) |->
                 IF num[i].k = "null" THEN Null ELSE Int_(num[i].n)]]

\* a to_int that stops at pd.to_numeric, without astype("Int64")
to_int_numeric(series) ==
    [raised |-> FALSE,
     dtype |-> to_numeric(series).dtype,
     vals |-> to_numeric(series).vals]

to_int(series) == AsInt64(to_numeric(series).vals)

to_str(series) ==
    [raised |-> FALSE,
     dtype |-> "object",
     vals |-> [i \in 1..Len(series.vals) |->
                 Str(StripQuotes(Strip(AsStr(series.vals[i], series.dtype))))]]

\* astype(float) on one value
AsFloat(c) == IF c.k \in {"null", "inf", "nzero"} THEN c ELSE Float(c.n, c.e)

\* series.astype(str).str.replace(".", "").str.replace(",", ".") on one cell
PtText(c, dtype) ==
    Str(Replace(SelectSeq(AsStr(c, dtype), LAMBDA ch : ch # "."), ",", "."))

to_float_pt(series) ==
    LET num == to_numeric(IF IsNumericDtype(series.dtype) THEN series
                          ELSE Series("object",
                                      [i \in 1..Len(series.vals) |->
                                          PtText(series.vals[i], series.dtype)]))
    IN  [raised |-> FALSE,
         dtype |-> "float64",
         vals |-> [i \in 1..Len(series.vals) |-> AsFloat(num.vals[i])]]

Cast(kind, series) ==
    CASE kind = "int" -> to_int(series)
      [] kind = "str" -> to_str(series)
      [] OTHER -> to_float_pt(series)

\* one "for col in fields: if col in df.columns: df[col] = cast(df[col])" loop,
\* from field i on; an exception leaves the columns assigned so far in place
RECURSIVE CastLoop(_, _, _, _)
CastStep(df, fields, i, kind, r) ==
    IF r.raised THEN [df |-> df, raised |-> TRUE]
    ELSE CastLoop(SetCol(df, fields[i], r), fields, i + 1, kind)

CastLoop(df, fields, i, kind) ==
    IF i > Len(fields) THEN [df |-> df, raised |-> FALSE]
    ELSE IF ~HasCol(df, fields[i]) THEN CastLoop(df, fields, i + 1, kind)
    ELSE CastStep(df, fields, i, kind, Cast(kind, GetCol(df, fields[i])))

\* the next loop of a cast function, skipped once a cast has raised
CastNext(a, fields, kind) ==
    IF a.raised THEN a ELSE CastLoop(a.df, fields, 1, kind)

CastReturn(h, ref, c, same) ==
    [heap |-> [h EXCEPT ![ref] = c.df],
     ret |-> IF c.raised THEN 0 ELSE same,
     err |-> IF c.raised THEN Raise("TypeError", <<>>) ELSE NoErr]

\* apply_casts on the DataFrame object h[ref]: the heap after the call, the
\* object returned (the caller's own DataFrame, 0 when the call raised) and the
\* exception
apply_casts(h, ref, integer_fields, string_fields, float_fields) ==
    CastReturn(h, ref,
        CastNext(CastNext(CastLoop(h[ref], integer_fields, 1, "int"),
                          string_fields, "str"),
                 float_fields, "float"),
        ref)

clean_dataframe(h, ref, int_fields, str_fields) ==
    CastReturn(h, ref,
        CastNext(CastLoop(h[ref], int_fields, 1, "int"), str_fields, "str"),
        ref)

----------------------------------------------------------------------------
(* utils/validate.py *)

\* a validator that raises at the first missing column
ensure_required_columns_first(df, required) ==
    LET missing == SelectSeq(required, LAMBDA c : ~HasCol(df, c))
    IN  IF missing # <<>> THEN Raise("SchemaError", <<Head(missing)>>) ELSE NoErr

\* the SchemaError of ensure_required_columns lists `missing`
ensure_required_columns(df, required) ==
    LET missing == SelectSeq(required, LAMBDA c : ~HasCol(df, c))
    IN  IF missing # <<>> THEN Raise("SchemaError", missing) ELSE NoErr

IntegerWrong(df, c) == HasCol(df, c) /\ GetCol(df, c).dtype # "Int64"
StringWrong(df, c) == HasCol(df, c) /\ DtypeKind(GetCol(df, c).dtype) # "O"
FloatWrong(df, c) == HasCol(df, c) /\ DtypeKind(GetCol(df, c).dtype) # "f"

\* a type check that raises at the first mismatch
check_dtypes_first(df, integer_fields, string_fields, float_fields) ==
    LET wrong == SelectSeq(integer_fields, LAMBDA c : IntegerWrong(df, c))
                 \o SelectSeq(string_fields, LAMBDA c : StringWrong(df, c))
                 \o SelectSeq(float_fields, LAMBDA c : FloatWrong(df, c))
    IN  IF wrong # <<>> THEN Raise("SchemaError", <<Head(wrong)>>) ELSE NoErr

\* the SchemaError of check_dtypes names, in order, the columns of `wrong`
check_dtypes(df, integer_fields, string_fields, float_fields) ==
    LET wrong == SelectSeq(integer_fields, LAMBDA c : IntegerWrong(df, c))
                 \o SelectSeq(string_fields, LAMBDA c : StringWrong(df, c))
                 \o SelectSeq(float_fields, LAMBDA c : FloatWrong(df, c))
    IN  IF wrong # <<>> THEN Raise("SchemaError", wrong) ELSE NoErr

----------------------------------------------------------------------------
(* Files: a data file is the sequence of its bytes (one-character strings) *)

\* os.path.exists(path) is false
NoFile == <<"<absent>">>

\* the output paths, named by their table
Paths == {"users", "posts", "out"}

\* the byte of a character (ASCII)
CharCode(c) ==
    CASE c = "\t" -> 9 [] c = "\n" -> 10 [] c = "\f" -> 12 [] c = "\r" -> 13
      [] c = " " -> 32 [] c = "\"" -> 34 [] c = "+" -> 43 [] c = "," -> 44
      [] c = "-" -> 45 [] c = "." -> 46 [] c = ";" -> 59 [] c = "<" -> 60
      [] c = ">" -> 62 [] c = "_" -> 95
      [] c \in Digit -> 48 + DigitVal(c)
      [] OTHER ->
           LET lo == IndexOf(<<"a", "b", "c", "d", "e", "f", "g", "h", "i", "j", "k", "l",
                               "m", "n", "o", "p", "q", "r", "s", "t", "u", "v", "w", "x",
                               "y", "z">>, {c}, 1)
           IN  IF lo # 0 THEN 96 + lo
               ELSE 64 + IndexOf(<<"A", "B", "C", "D", "E", "F", "G", "H", "I", "J", "K",
                                   "L", "M", "N", "O", "P", "Q", "R", "S", "T", "U", "V",
                                   "W", "X", "Y", "Z">>, {c}, 1)

\* the canonical column names, as text
NameText(name) ==
    CASE name = "user_id" -> <<"u", "s", "e", "r", "_", "i", "d">>
      [] name = "post_id" -> <<"p", "o", "s", "t", "_", "i", "d">>
      [] name = "nome" -> <<"n", "o", "m", "e">>
      [] name = "titulo" -> <<"t", "i", "t", "u", "l", "o">>
      [] name = "municipio" -> <<"m", "u", "n", "i", "c", "i", "p", "i", "o">>
      [] name = "uf" -> <<"u", "f">>
      [] name = "ano" -> <<"a", "n", "o">>
      [] name = "usuario" -> <<"u", "s", "u", "a", "r", "i", "o">>
      [] name = "email" -> <<"e", "m", "a", "i", "l">>
      [] name = "conteudo" -> <<"c", "o", "n", "t", "e", "u", "d", "o">>
      [] name = "extra" -> <<"e", "x", "t", "r", "a">>
      [] name = "densidade_smp" ->
            <<"d", "e", "n", "s", "i", "d", "a", "d", "e", "_", "s", "m", "p">>
      [] OTHER -> <<name>>

RECURSIVE Join(_, _)
Join(parts, sep) ==
    IF parts = <<>> THEN <<>>
    ELSE IF Len(parts) = 1 THEN parts[1]
    ELSE parts[1] \o sep \o Join(Tail(parts), sep)

----------------------------------------------------------------------------
(* DataFrame.to_csv(path, sep, encoding, index=False, lineterminator="\n") *)

RECURSIVE DoubleQuotes(_)
DoubleQuotes(t) ==
    IF t = <<>> THEN <<>>
    ELSE IF Head(t) = "\"" THEN <<"\"", "\"">> \o DoubleQuotes(Tail(t))
    ELSE <<Head(t)>> \o DoubleQuotes(Tail(t))

\* csv.QUOTE_MINIMAL: a field holding the delimiter, the quote character or a
\* character of the line terminator "\n" is quoted; cr tells whether the
\* interpreter's csv.writer quotes "\r" as well (CPython 3.13 does, 3.11 does not)
CsvQuote(t, sep, cr) ==
    IF \E i \in 1..Len(t) : t[i] \in {sep, "\"", "\n"} \/ (cr /\ t[i] = "\r")
    THEN <<"\"">> \o DoubleQuotes(t) \o <<"\"">>
    ELSE t

CsvField(c, sep, cr) ==
    CASE c.k \in {"null", "none"} -> <<>>
      [] c.k = "str" -> CsvQuote(c.s, sep, cr)
      [] c.k = "int" -> IntText(c.n)
      [] OTHER -> FloatText(c)

\* a row that is one empty field is written as ""
CsvRow(fields, sep) ==
    IF fields = <<<<>>>> THEN <<"\"", "\"", "\n">> ELSE Join(fields, <<sep>>) \o <<"\n">>

RECURSIVE CsvRows(_, _, _, _)
CsvRows(df, sep, cr, i) ==
    IF i > NRows(df) THEN <<>>
    ELSE CsvRow([j \in 1..Len(df) |-> CsvField(df[j].vals[i], sep, cr)], sep)
         \o CsvRows(df, sep, cr, i + 1)

to_csv(df, sep, cr) ==
    CsvRow([j \in 1..Len(df) |-> CsvQuote(NameText(df[j].name), sep, cr)], sep)
    \o CsvRows(df, sep, cr, 1)

----------------------------------------------------------------------------
(* hashlib.md5, as a streaming digest of 16 bits: the digest of the bytes    *)
(* passed to update(), in order, whatever the chunks they came in.  The      *)
(* state is the digest so far; the tests "st < 0" below are never true and   *)
(* only make TLC evaluate the state before it goes on.                       *)

md5_new == 26437

RECURSIVE md5_update(_, _, _)
md5_update(st, chunk, i) ==
    IF i > Len(chunk) \/ st < 0 THEN st
    ELSE md5_update((st * 31 + CharCode(chunk[i])) % 65521, chunk, i + 1)

hexdigest(st) == st

----------------------------------------------------------------------------
(* utils/metadata.py *)

\* f.read(chunk_size) at offset pos
Read(content, pos, chunk_size) ==
    SubSeq(content, pos + 1,
           IF pos + chunk_size < Len(content) THEN pos + chunk_size ELSE Len(content))

\* a loop that stops at the first chunk shorter than chunk_size
RECURSIVE Md5LoopShort(_, _, _, _)
Md5ShortStep(content, pos, chunk_size, st, chunk) ==
    IF Len(chunk) < chunk_size \/ st < 0 THEN st
    ELSE Md5LoopShort(content, pos + Len(chunk), chunk_size, md5_update(st, chunk, 1))

Md5LoopShort(content, pos, chunk_size, st) ==
    Md5ShortStep(content, pos, chunk_size, st, Read(content, pos, chunk_size))

_md5_short(content, chunk_size) ==
    hexdigest(Md5LoopShort(content, 0, chunk_size, md5_new))

\* for chunk in iter(lambda: f.read(chunk_size), b""): md5.update(chunk)
RECURSIVE Md5Loop(_, _, _, _)
Md5Step(content, pos, chunk_size, st, chunk) ==
    IF chunk = <<>> \/ st < 0 THEN st
    ELSE Md5Loop(content, pos + Len(chunk), chunk_size, md5_update(st, chunk, 1))

Md5Loop(content, pos, chunk_size, st) ==
    Md5Step(content, pos, chunk_size, st, Read(content, pos, chunk_size))

\* _md5 of the file whose bytes are `content`
_md5(content, chunk_size) == hexdigest(Md5Loop(content, 0, chunk_size, md5_new))

\* a count of the newline bytes alone
count_newline_bytes(content) ==
    Cardinality({i \in 1..Len(content) : content[i] = "\n"})

\* "for _ in f" on a binary file: the newline-terminated lines, and one more
\* for a last line that no newline ends
_count_file_lines(content) ==
    Cardinality({i \in 1..Len(content) : content[i] = "\n"})
    + (IF content # <<>> /\ content[Len(content)] # "\n" THEN 1 ELSE 0)

\* str.split(delimitador)
RECURSIVE Split(_, _, _)
Split(t, sep, cur) ==
    IF t = <<>> THEN <<cur>>
    ELSE IF Head(t) = sep THEN <<cur>> \o Split(Tail(t), sep, <<>>)
    ELSE Split(Tail(t), sep, Append(cur, Head(t)))

\* f.readline() on a file opened in text mode: the line ends at the first
\* "\n", "\r" or "\r\n", at position nl, which is read as "\n"
FirstLineAt(content, nl) ==
    IF nl = 0 THEN content ELSE Append(SubSeq(content, 1, nl - 1), "\n")

\* the columns write_manifest_from_file reads off the first line:
\* [c.strip() for c in f.readline().strip("\n\r").split(delimitador)]
HeaderColumns(content, sep) ==
    LET first == FirstLineAt(content, IndexOf(content, {"\n", "\r"}, 1))
        parts == Split(LStrip(RStrip(first, {"\n", "\r"}), {"\n", "\r"}), sep, <<>>)
    IN  [i \in 1..Len(parts) |-> Strip(parts[i])]

NoManifest ==
    [core |-> [tamanho_bytes |-> -1, hash_md5 |-> -1],
     schema_stats |-> [colunas |-> <<>>, linhas |-> -1],
     complete |-> FALSE]

\* a manifest file that json.dump did not finish
PartialManifest == [NoManifest EXCEPT !.core.tamanho_bytes = -2]

CoreInfo(content, chunk_size) ==
    [tamanho_bytes |-> Len(content), hash_md5 |-> _md5(content, chunk_size)]

Manifest(core, colunas, linhas) ==
    [core |-> core, schema_stats |-> [colunas |-> colunas, linhas |-> linhas],
     complete |-> TRUE]

\* open(out, "w") and json.dump(manifest, f): io is "ok", "open" (open raises)
\* or "dump" (the write raises after the file was created)
DumpManifest(files, manifests, path, manifest, io) ==
    CASE io = "open" -> [fs |-> files, mf |-> manifests, err |-> Raise("OSError", <<>>)]
      [] io = "dump" ->
            [fs |-> files, mf |-> [manifests EXCEPT ![path] = PartialManifest],
             err |-> Raise("OSError", <<>>)]
      [] OTHER -> [fs |-> files, mf |-> [manifests EXCEPT ![path] = manifest],
                   err |-> NoErr]

Failed(files, manifests, kind) ==
    [fs |-> files, mf |-> manifests, err |-> Raise(kind, <<>>)]

\* an entry point that opens the manifest for writing before it looks for the
\* data file
write_metadata_late_check(files, manifests, df, path, pd, chunk_size, io) ==
    IF ~pd THEN Failed(files, manifests, "RuntimeError")
    ELSE IF files[path] = NoFile
    THEN [fs |-> files, mf |-> [manifests EXCEPT ![path] = PartialManifest],
          err |-> Raise("FileNotFoundError", <<>>)]
    ELSE DumpManifest(files, manifests, path,
            Manifest(CoreInfo(files[path], chunk_size),
                     [j \in 1..Len(df) |-> NameText(df[j].name)], NRows(df)),
            io)

\* the file system after write_metadata_from_df(df, path), and the exception
write_metadata_from_df(files, manifests, df, path, pd, chunk_size, io) ==
    IF ~pd THEN Failed(files, manifests, "RuntimeError")
    ELSE IF files[path] = NoFile THEN Failed(files, manifests, "FileNotFoundError")
    ELSE DumpManifest(files, manifests, path,
            Manifest(CoreInfo(files[path], chunk_size),
                     [j \in 1..Len(df) |-> NameText(df[j].name)], NRows(df)),
            io)

\* schema_stats.linhas of write_manifest_from_file; -1 is None
FileRows(content, header, line_count) ==
    IF ~line_count THEN -1
    ELSE IF header /\ _count_file_lines(content) > 0
    THEN _count_file_lines(content) - 1
    ELSE _count_file_lines(content)

\* sep is the delimitador, "" when none is given
FileColumns(content, sep, header, infer_columns_from_header) ==
    IF infer_columns_from_header /\ header /\ sep # ""
    THEN HeaderColumns(content, sep) ELSE <<>>

write_manifest_from_file(files, manifests, path, sep, header, infer, line_count, chunk_size, io) ==
    IF files[path] = NoFile THEN Failed(files, manifests, "FileNotFoundError")
    ELSE DumpManifest(files, manifests, path,
            Manifest(CoreInfo(files[path], chunk_size),
                     FileColumns(files[path], sep, header, infer),
                     FileRows(files[path], header, line_count)),
            io)

----------------------------------------------------------------------------
(* save_txt (ingestao_api.py) and the same steps inline in ingestao_csv.main *)

\* the output path base_dir/table/partition_key=date/filename, named by its table
OutPath(table) == table

\* io is "ok", "open" (makedirs or open raises: nothing is written) or "write"
\* (the write raises after `cut` bytes)
save_txt(files, df, table, sep, cr, io, cut) ==
    CASE io = "open" -> [fs |-> files, path |-> "", err |-> Raise("OSError", <<>>)]
      [] io = "write" ->
            [fs |-> [files EXCEPT ![OutPath(table)] = SubSeq(to_csv(df, sep, cr), 1, cut)],
             path |-> "", err |-> Raise("OSError", <<>>)]
      [] OTHER -> [fs |-> [files EXCEPT ![OutPath(table)] = to_csv(df, sep, cr)],
                   path |-> OutPath(table), err |-> NoErr]


----------------------------------------------------------------------------
(* ingestao_api.py: the fetch collaborator and the frames it builds *)

\* what safe_get did: whether it returned a response, the GET attempts it made
\* and what each of them met
Got(ok, outcomes, attempts) ==
    [ok |-> ok, attempts |-> attempts, seen |-> SubSeq(outcomes, 1, attempts)]

\* a safe_get that returns normally when the attempts are exhausted
RECURSIVE safe_get_swallow(_, _, _)
safe_get_swallow(outcomes, retries, attempt) ==
    IF attempt > retries THEN Got(TRUE, outcomes, attempt)
    ELSE IF outcomes[attempt + 1] = "200" THEN Got(TRUE, outcomes, attempt + 1)
    ELSE safe_get_swallow(outcomes, retries, attempt + 1)

\* safe_get: outcomes[k] is what GET attempt k meets ("200", another status or
\* "timeout"); ok is FALSE when it raises ApiError
RECURSIVE safe_get(_, _, _)
safe_get(outcomes, retries, attempt) ==
    IF attempt > retries THEN Got(FALSE, outcomes, attempt)
    ELSE IF outcomes[attempt + 1] = "200" THEN Got(TRUE, outcomes, attempt + 1)
    ELSE safe_get(outcomes, retries, attempt + 1)

\* the column pd.DataFrame builds from the values of one key, where a JSON
\* null is None and a row without the key NaN: int64 when every value is an
\* integer; float64 when they are numbers, None or NaN and not None alone (an
\* integer becomes a float, None becomes NaN); object, the values kept, otherwise
JsonColumn(name, vals) ==
    IF vals # <<>> /\ \A i \in 1..Len(vals) : vals[i].k = "int"
    THEN Column(name, "int64", vals)
    ELSE IF /\ \A i \in 1..Len(vals) :
                 vals[i].k \in {"int", "float", "nzero", "inf", "null", "none"}
            /\ \E j \in 1..Len(vals) : vals[j].k # "none"
    THEN Column(name, "float64",
                [i \in 1..Len(vals) |->
                    IF vals[i].k = "none" THEN Null ELSE AsFloat(vals[i])])
    ELSE Column(name, "object", vals)

\* pd.DataFrame(data, columns=keys): a key no row has is a column of NaN
FromJson(data, keys) ==
    [j \in 1..Len(keys) |->
        JsonColumn(keys[j], IF HasCol(data, keys[j]) THEN GetCol(data, keys[j]).vals
                            ELSE [i \in 1..NRows(data) |-> Null])]

\* DataFrame.rename(columns=mapping)
Rename(df, mapping) ==
    [j \in 1..Len(df) |->
        IF df[j].name \in DOMAIN mapping
        THEN [df[j] EXCEPT !.name = mapping[df[j].name]] ELSE df[j]]

UsersNames ==
    [k \in {"id", "name", "username", "email"} |->
        CASE k = "id" -> "user_id" [] k = "name" -> "nome"
          [] k = "username" -> "usuario" [] OTHER -> "email"]

PostsNames ==
    [k \in {"userId", "id", "title", "body"} |->
        CASE k = "userId" -> "user_id" [] k = "id" -> "post_id"
          [] k = "title" -> "titulo" [] OTHER -> "conteudo"]

\* what a find_* call logs: the GET attempts, the rename and the casts
Fetch(ds, got) == [step |-> "fetch", ds |-> ds, n |-> got.attempts, seen |-> got.seen]

Acquire(calls, ds, got) ==
    calls \o <<Fetch(ds, got),
               [step |-> "rename", ds |-> ds, n |-> 0, seen |-> <<>>],
               [step |-> "cast", ds |-> ds, n |-> 0, seen |-> <<>>]>>

FetchFailed(h, calls, ds, got) ==
    [heap |-> h, err |-> Raise("ApiError", <<>>), calls |-> Append(calls, Fetch(ds, got))]

Cleaned(r, calls, ds, got) ==
    [heap |-> r.heap, err |-> r.err, calls |-> Acquire(calls, ds, got)]

\* the frame find_* builds in object `ref`, cleaned in place
Found(h, ref, frame, ints, strs, calls, ds, got) ==
    Cleaned(clean_dataframe([h EXCEPT ![ref] = frame], ref, ints, strs),
            calls, ds, got)

FindWith(h, ref, got, json, keys, names, ints, strs, calls, ds) ==
    IF ~got.ok \/ ~json.valid THEN FetchFailed(h, calls, ds, got)
    ELSE Found(h, ref, Rename(FromJson(json.data, keys), names), ints, strs,
               calls, ds, got)

find_users(h, ref, outcomes, retries, json, calls) ==
    FindWith(h, ref, safe_get(outcomes, retries, 0), json,
             <<"id", "name", "username", "email">>, UsersNames,
             <<"user_id">>, <<"nome", "usuario", "email">>, calls, "users")

find_posts_by_user_id(h, ref, outcomes, retries, json, calls) ==
    FindWith(h, ref, safe_get(outcomes, retries, 0), json,
             <<"userId", "id", "title", "body">>, PostsNames,
             <<"user_id", "post_id">>, <<"titulo", "conteudo">>, calls, "posts")

\* users_df.loc[users_df["nome"] == alvo_nome], then int(row.iloc[0]["user_id"]):
\* SystemExit when no row matches, TypeError when the id of the row is <NA>
TargetRows(df, alvo) ==
    {i \in 1..NRows(df) : GetCol(df, "nome").vals[i] = Str(alvo)}

TargetUser(df, alvo) ==
    IF TargetRows(df, alvo) = {} THEN Raise("SystemExit", <<>>)
    ELSE IF GetCol(df, "user_id").vals[CHOOSE i \in TargetRows(df, alvo) :
                                     \A j \in TargetRows(df, alvo) : i <= j].k = "null"
    THEN Raise("TypeError", <<>>)
    ELSE NoErr

----------------------------------------------------------------------------
(* ingestao_csv.py *)

\* columns_normalization of the configuration
ColNorm ==
    [k \in {"Municipio", "UF", "Densidade SMP", "Ano"} |->
        CASE k = "Municipio" -> "municipio" [] k = "UF" -> "uf"
          [] k = "Densidade SMP" -> "densidade_smp" [] OTHER -> "ano"]

\* normalize_columns: df.rename returns a new DataFrame, here object `new`
normalize_columns(h, ref, new, mapping) == [h EXCEPT ![new] = Rename(h[ref], mapping)]

preview_cols == <<"municipio", "uf", "densidade_smp">>

\* the preview of main: SchemaError when a preview column is missing
Preview(df) ==
    IF \E i \in 1..Len(preview_cols) : ~HasCol(df, preview_cols[i])
    THEN Raise("SchemaError", SelectSeq(preview_cols, LAMBDA c : ~HasCol(df, c)))
    ELSE NoErr

----------------------------------------------------------------------------
(* The entry points: main() under the try/except of __main__ *)

\* the exit code of the process once main() has ended with exception e
ExitCode(pipeline, e) ==
    IF pipeline = "csv" THEN 0
    ELSE CASE e.kind = "none" -> 0
           [] e.kind = "SystemExit" -> 2
           [] e.kind = "SchemaError" -> 3
           [] OTHER -> 1

\* the statement main() reaches after a call: the next one when the call
\* returned, none when it raised
After(e, next) == IF e = NoErr THEN next ELSE "exit"

\* a pipeline that goes on to the manifest whatever the data-file write did
AfterSaveAnyway(e, next) == next

\* the statement after the data-file write
AfterSave(e, next) == After(e, next)

----------------------------------------------------------------------------
(* Values the variables take while a specification does not use them *)

EmptyFs == [p \in Paths |-> NoFile]
EmptyMf == [p \in Paths |-> NoManifest]
NoDf == <<>>
Idle == [calls |-> <<>>, written |-> {}, manifested |-> {}, exit |-> -1]
NoSchema ==
    [required |-> <<>>, integer_fields |-> <<>>, string_fields |-> <<>>,
     float_fields |-> <<>>]

----------------------------------------------------------------------------
(* SpecCast: apply_casts / clean_dataframe on raw datasets *)

\* raw cells of column "a": "12", "abc", "", "7", "12.5", " +1e1", "-iNf",
\* "-0,0", a missing value (NaN) and None
CellsA ==
    {Str(<<"1", "2">>), Str(<<"a", "b", "c">>), Str(<<>>), Str(<<"7">>),
     Str(<<"1", "2", ".", "5">>), Str(<<" ", "+", "1", "e", "1">>),
     Str(<<"-", "i", "N", "f">>), Str(<<"-", "0", ",", "0">>), Null, None_}

\* raw cells of column "b": ' "a"' and "1,5"
CellsB == {Str(<<" ", "\"", "a", "\"">>), Str(<<"1", ",", "5">>)}

Vectors(cells, n) == [1..n -> cells]

RawFrames ==
    UNION {
        {<<Column("a", "object", va)>> : va \in Vectors(CellsA, n)}
        \cup {<<Column("a", "object", va), Column("b", "object", vb)>> :
                va \in Vectors(CellsA, n), vb \in Vectors(CellsB, n)}
        : n \in 0..MaxRows}

CastSchemas ==
    {[required |-> <<>>, integer_fields |-> i, string_fields |-> s, float_fields |-> f] :
        i \in {<<>>, <<"a">>, <<"c", "a">>},
        s \in {<<>>, <<"b">>},
        f \in {<<>>, <<"c">>}}
    \cup {[required |-> <<>>, integer_fields |-> <<>>, string_fields |-> <<"a">>,
           float_fields |-> <<"b">>],
          [required |-> <<>>, integer_fields |-> <<"b">>, string_fields |-> <<>>,
           float_fields |-> <<"a">>],
          [required |-> <<>>, integer_fields |-> <<"a">>, string_fields |-> <<"a", "b">>,
           float_fields |-> <<>>]}

InitCast ==
    /\ \E d \in RawFrames : heap = [o \in 1..2 |-> IF o = 1 THEN d ELSE NoDf]
    /\ arg = 1
    /\ df0 = heap[arg]
    /\ ret = 0
    /\ schema \in CastSchemas
    /\ err = NoErr
    /\ op = "none"
    /\ fs = EmptyFs /\ mf = EmptyMf /\ fs0 = EmptyFs /\ mf0 = EmptyMf
    /\ env = [none |-> TRUE] /\ pc = "call" /\ run = Idle

Returned(r) == heap' = r.heap /\ ret' = r.ret /\ err' = r.err

ApplyCasts ==
    /\ pc = "call" /\ op = "none"
    /\ Returned(apply_casts(heap, arg, schema.integer_fields, schema.string_fields,
                            schema.float_fields))
    /\ op' = "apply_casts"
    /\ UNCHANGED <<arg, df0, schema, fs, mf, fs0, mf0, env, pc, run>>

CleanDataframe ==
    /\ pc = "call" /\ op = "none"
    /\ Returned(clean_dataframe(heap, arg, schema.integer_fields, schema.string_fields))
    /\ op' = "clean_dataframe"
    /\ UNCHANGED <<arg, df0, schema, fs, mf, fs0, mf0, env, pc, run>>

NextCast == ApplyCasts \/ CleanDataframe

SpecCast == InitCast /\ [][NextCast]_vars

----------------------------------------------------------------------------
(* SpecValidate: ensure_required_columns / check_dtypes on typed datasets *)

DTypes == {"Int64", "int64", "object", "float64", "float32"}

\* datasets without rows: the validators read column names and dtypes only
TypedFrames ==
    UNION {
        {<<>>},
        {<<Column(c, t, <<>>)>> : c \in {"a", "b", "c"}, t \in DTypes},
        {<<Column("a", t, <<>>), Column("b", u, <<>>)>> : t \in DTypes, u \in DTypes},
        {<<Column("c", t, <<>>), Column("a", u, <<>>)>> : t \in DTypes, u \in DTypes},
        {<<Column("a", t, <<>>), Column("b", u, <<>>), Column("c", v, <<>>)>> :
            t \in DTypes, u \in DTypes, v \in DTypes}}

ValidateSchemas ==
    {[required |-> r, integer_fields |-> i, string_fields |-> s, float_fields |-> f] :
        r \in {<<>>, <<"a", "b", "c">>, <<"c", "b">>, <<"b">>},
        i \in {<<>>, <<"a">>, <<"a", "b">>},
        s \in {<<>>, <<"b">>, <<"c", "a">>},
        f \in {<<>>, <<"c">>, <<"b", "c">>}}

InitValidate ==
    /\ \E d \in TypedFrames : heap = [o \in 1..2 |-> IF o = 1 THEN d ELSE NoDf]
    /\ arg = 1
    /\ df0 = heap[arg]
    /\ ret = 0
    /\ schema \in ValidateSchemas
    /\ err = NoErr
    /\ op = "none"
    /\ fs = EmptyFs /\ mf = EmptyMf /\ fs0 = EmptyFs /\ mf0 = EmptyMf
    /\ env = [none |-> TRUE] /\ pc = "call" /\ run = Idle

EnsureRequiredColumns ==
    /\ pc = "call" /\ op = "none"
    /\ err' = ensure_required_columns(heap[arg], schema.required)
    /\ op' = "ensure_required_columns"
    /\ UNCHANGED <<heap, arg, df0, ret, schema, fs, mf, fs0, mf0, env, pc, run>>

CheckDtypes ==
    /\ pc = "call" /\ op = "none"
    /\ err' = check_dtypes(heap[arg], schema.integer_fields, schema.string_fields,
                           schema.float_fields)
    /\ op' = "check_dtypes"
    /\ UNCHANGED <<heap, arg, df0, ret, schema, fs, mf, fs0, mf0, env, pc, run>>

NextValidate == EnsureRequiredColumns \/ CheckDtypes

SpecValidate == InitValidate /\ [][NextValidate]_vars

----------------------------------------------------------------------------
(* SpecManifest: save_txt, write_metadata_from_df and                        *)
(* write_manifest_from_file on a file system with older files                *)

\* cells of the datasets written: "12", 'a;"', a carriage return and a
\* missing value
CellsM == {Str(<<"1", "2">>), Str(<<"a", ";", "\"">>), Str(<<"\r">>), Null}

ManifestFrames ==
    UNION {
        {<<Column("a", "object", va)>> : va \in Vectors(CellsM, n)}
        \cup {<<Column("a", "object", va), Column("b", "Int64", [i \in 1..n |-> Int_(7)])>> :
                va \in Vectors(CellsM, n)}
        : n \in 0..MaxRows}

\* files left at "out" by earlier runs: none, an empty file, a header alone,
\* a header and a row, a last line without newline
OlderFiles ==
    {NoFile, <<>>, <<"a", ";", "b", "\n">>, <<"a", ";", "b", "\n", "1", ";", "2", "\n">>,
     <<"a", ";", "b", "\r", "\n", "1", ";", "2">>}

OlderManifest == Manifest([tamanho_bytes |-> 0, hash_md5 |-> 0], <<>>, 0)

\* saved: save_txt returned `path`, written with separator `wsep`; pd: pandas
\* could be imported; cr: the interpreter's csv.writer quotes "\r"
CallEnv(pd, cr, path, sep, header, line_count, saved, wsep) ==
    [pd |-> pd, cr |-> cr, path |-> path, sep |-> sep, header |-> header,
     line_count |-> line_count, saved |-> saved, wsep |-> wsep]

InitManifest ==
    /\ \E d \in ManifestFrames : heap = [o \in 1..2 |-> IF o = 1 THEN d ELSE NoDf]
    /\ arg = 1
    /\ df0 = heap[arg]
    /\ ret = 0
    /\ schema = NoSchema
    /\ err = NoErr
    /\ op = "none"
    /\ \E c \in OlderFiles : fs = [EmptyFs EXCEPT !["out"] = c]
    /\ \E m \in {NoManifest, OlderManifest} : mf = [EmptyMf EXCEPT !["out"] = m]
    /\ fs0 = fs /\ mf0 = mf
    /\ \E pd \in BOOLEAN, cr \in BOOLEAN :
         env = CallEnv(pd, cr, "", "", FALSE, FALSE, FALSE, "")
    /\ pc = "call"
    /\ run = Idle

Wrote(r) == fs' = r.fs /\ mf' = r.mf /\ err' = r.err

Saved(r, sep) ==
    /\ fs' = r.fs
    /\ err' = r.err
    /\ env' = CallEnv(env.pd, env.cr, r.path, sep, FALSE, FALSE, r.err = NoErr, sep)
    /\ pc' = IF r.err = NoErr THEN "saved" ELSE "done"

SaveTxt ==
    /\ pc = "call"
    /\ \E table \in {"out", "users"}, sep \in {";", ","}, io \in {"ok", "open", "write"} :
         \E cut \in 0..(IF io = "write" THEN Len(to_csv(heap[arg], sep, env.cr)) - 1
                        ELSE 0) :
            Saved(save_txt(fs, heap[arg], table, sep, env.cr, io, cut), sep)
    /\ op' = "save_txt"
    /\ fs0' = fs /\ mf0' = mf
    /\ UNCHANGED <<heap, arg, df0, ret, schema, mf, run>>

\* the path of a manifest call: the one save_txt returned, or any path
CallPaths == IF pc = "saved" THEN {env.path} ELSE {"out", "users"}

WriteMetadataFromDf ==
    /\ pc \in {"call", "saved"}
    /\ \E path \in CallPaths, io \in {"ok", "open", "dump"} :
         /\ Wrote(write_metadata_from_df(fs, mf, heap[arg], path, env.pd, ChunkSize, io))
         /\ env' = CallEnv(env.pd, env.cr, path, env.sep, FALSE, FALSE, env.saved,
                            env.wsep)
    /\ op' = "write_metadata_from_df"
    /\ pc' = "done"
    /\ fs0' = fs /\ mf0' = mf
    /\ UNCHANGED <<heap, arg, df0, ret, schema, run>>

WriteManifestFromFile ==
    /\ pc \in {"call", "saved"}
    /\ \E path \in CallPaths, io \in {"ok", "open", "dump"}, sep \in {";", ""},
          header \in BOOLEAN, infer \in BOOLEAN, line_count \in BOOLEAN :
         /\ Wrote(write_manifest_from_file(fs, mf, path, sep, header, infer, line_count,
                                           ChunkSize, io))
         /\ env' = CallEnv(env.pd, env.cr, path, sep, header, line_count, env.saved,
                            env.wsep)
    /\ op' = "write_manifest_from_file"
    /\ pc' = "done"
    /\ fs0' = fs /\ mf0' = mf
    /\ UNCHANGED <<heap, arg, df0, ret, schema, run>>

NextManifest == SaveTxt \/ WriteMetadataFromDf \/ WriteManifestFromFile

SpecManifest == InitManifest /\ [][NextManifest]_vars

----------------------------------------------------------------------------
(* Spec: one run of a pipeline, ingestao_csv.main or ingestao_api.main *)

Ana == <<"a", "n", "a">>

Json(data) == [valid |-> TRUE, data |-> data]
NotJson == [valid |-> FALSE, data |-> <<>>]

\* the rows of a body by key: ids[i] and names[i] are the "id" and the "name"
\* of row i, None_ for a JSON null and Null for a row without the key
UserRow(ids, names) ==
    <<Column("id", "", ids), Column("name", "", names),
      Column("username", "", [i \in 1..Len(ids) |-> Str(<<"u">>)]),
      Column("email", "", [i \in 1..Len(ids) |-> Str(<<"e">>)])>>

\* bodies of GET /users: no user, the target user, a user without "id", an id
\* that is no whole number, a name to strip, another user, a row without
\* "email", a user whose name is null, the target user and a row of nulls,
\* and a body that is not JSON
UsersJson ==
    {Json(<<>>), Json(UserRow(<<Int_(1)>>, <<Str(Ana)>>)),
     Json(UserRow(<<Null>>, <<Str(Ana)>>)),
     Json(UserRow(<<Float(15, 1)>>, <<Str(Ana)>>)),
     Json(UserRow(<<Int_(2)>>, <<Str(<<" ">> \o Ana)>>)),
     Json(UserRow(<<Int_(1)>>, <<Str(<<"b", "o", "b">>)>>)),
     Json(SubSeq(UserRow(<<Int_(1)>>, <<Str(Ana)>>), 1, 3)),
     Json(UserRow(<<Int_(1)>>, <<None_>>)),
     Json(UserRow(<<Int_(1), None_>>, <<Str(Ana), None_>>)), NotJson}

PostRow(id) ==
    <<Column("userId", "", <<Int_(1)>>), Column("id", "", <<id>>),
      Column("title", "", <<Str(<<"t">>)>>), Column("body", "", <<Str(<<"b", ";">>)>>)>>

PostsJson ==
    {Json(<<>>), Json(PostRow(Int_(10))), Json(PostRow(Str(<<"1", ".", "5">>))), NotJson}

Schema(required, ints, strs, floats) ==
    [required |-> required, integer_fields |-> ints, string_fields |-> strs,
     float_fields |-> floats]

\* schema.users of the configuration: as shipped, one that requires a column
\* the API does not give, one that declares user_id a float
UsersSchemas ==
    {Schema(<<"user_id", "nome", "usuario", "email">>, <<"user_id">>,
            <<"nome", "usuario", "email">>, <<>>),
     Schema(<<"user_id", "phone", "nome", "site">>, <<"user_id">>, <<"nome">>, <<>>),
     Schema(<<"user_id", "nome">>, <<>>, <<"nome">>, <<"user_id">>)}

PostsSchemas ==
    {Schema(<<"user_id", "post_id", "titulo", "conteudo">>, <<"user_id", "post_id">>,
            <<"titulo", "conteudo">>, <<>>),
     Schema(<<"post_id", "tags">>, <<"post_id">>, <<"titulo">>, <<>>)}

CsvRow1(ano) ==
    <<Column("Municipio", "object", <<Str(<<" ", "\"", "s", "a", "o", "\"">>)>>),
      Column("UF", "object", <<Str(<<"s", "p">>)>>),
      Column("Densidade SMP", "object", <<Str(<<"1", "2", ",", "5">>)>>),
      Column("Ano", "object", <<ano>>)>>

\* what pd.read_csv(dtype=str) returns: a row, a row whose year is "12.5", a
\* row without year, a file without "UF", a file with one more column, a
\* header alone
CsvRaws ==
    {CsvRow1(Str(<<"1", "2">>)), CsvRow1(Str(<<"1", "2", ".", "5">>)), CsvRow1(Null),
     <<CsvRow1(Null)[1], CsvRow1(Null)[3]>>,
     CsvRow1(Str(<<"7">>)) \o <<Column("extra", "object", <<Str(<<"x">>)>>)>>,
     [j \in 1..4 |-> [CsvRow1(Null)[j] EXCEPT !.vals = <<>>]]}

\* schema of the configuration: as shipped, one that does not require "uf",
\* one that declares "ano" both integer and string
CsvSchemas ==
    {Schema(<<"municipio", "uf", "densidade_smp">>, <<"ano">>, <<"municipio", "uf">>,
            <<"densidade_smp">>),
     Schema(<<"municipio", "densidade_smp">>, <<"ano">>, <<"municipio">>,
            <<"densidade_smp">>),
     Schema(<<"municipio", "uf", "densidade_smp">>, <<"ano">>,
            <<"municipio", "uf", "ano">>, <<"densidade_smp">>)}

\* cr: the interpreter's csv.writer quotes "\r"
RunEnv(pipeline, raw, users, posts, posts_schema, retries, cr) ==
    [pipeline |-> pipeline, raw |-> raw, users |-> users, posts |-> posts,
     posts_schema |-> posts_schema, retries |-> retries, alvo |-> Ana, cr |-> cr]

\* files and manifests earlier runs of the same day left at the output paths
OlderFs == [p \in Paths |-> <<"o", "\n">>]

Init ==
    /\ heap = [o \in 1..2 |-> NoDf]
    /\ arg = 1 /\ df0 = NoDf /\ ret = 0
    /\ \/ /\ \E raw \in CsvRaws, cr \in BOOLEAN :
               env = RunEnv("csv", raw, NotJson, NotJson, NoSchema, 0, cr)
          /\ schema \in CsvSchemas
       \/ /\ \E users \in UsersJson, posts \in PostsJson, ps \in PostsSchemas,
               retries \in 0..MaxRetries, cr \in BOOLEAN :
                 env = RunEnv("api", NoDf, users, posts, ps, retries, cr)
          /\ schema \in UsersSchemas
    /\ err = NoErr
    /\ op = "none"
    /\ \/ fs = EmptyFs /\ mf = EmptyMf
       \/ fs = OlderFs /\ mf = [p \in Paths |-> OlderManifest]
    /\ fs0 = fs /\ mf0 = mf
    /\ pc = "start"
    /\ run = Idle

\* the dataset, its DataFrame object, its schema and its output path at pc
DsOf(at) ==
    CASE at \in {"ensure_users", "check_users", "target", "save_users", "manifest_users"}
            -> "users"
      [] at \in {"ensure_posts", "check_posts", "save_posts", "manifest_posts"} -> "posts"
      [] OTHER -> "csv"

RefOf(at) == IF DsOf(at) = "users" THEN 1 ELSE 2
SchemaOf(at) == IF DsOf(at) = "posts" THEN env.posts_schema ELSE schema
PathOf(at) == IF DsOf(at) = "csv" THEN OutPath("out") ELSE OutPath(DsOf(at))

\* the statements of the two main(), in order
NextOf(at) ==
    CASE at = "start" -> IF env.pipeline = "csv" THEN "normalize" ELSE "ensure_users"
      [] at = "normalize" -> "ensure"
      [] at = "ensure" -> "cast"
      [] at = "cast" -> "check"
      [] at = "check" -> "preview"
      [] at = "preview" -> IF env.pipeline = "csv" THEN "save" ELSE "save_users"
      [] at = "save" -> "manifest"
      [] at = "ensure_users" -> "check_users"
      [] at = "check_users" -> "target"
      [] at = "target" -> "find_posts"
      [] at = "find_posts" -> "ensure_posts"
      [] at = "ensure_posts" -> "check_posts"
      [] at = "check_posts" -> "preview"
      [] at = "save_users" -> "manifest_users"
      [] at = "manifest_users" -> "save_posts"
      [] at = "save_posts" -> "manifest_posts"
      [] OTHER -> "exit"

Entry(step, ds) == [step |-> step, ds |-> ds, n |-> 0, seen |-> <<>>]

\* a statement ran: e is what it raised, calls the log after it, to the
\* statement reached; the process ends when main() returns or raises
Ran(name, e, calls, to, written, manifested) ==
    /\ op' = name
    /\ err' = e
    /\ pc' = to
    /\ run' = [calls |-> calls, written |-> written, manifested |-> manifested,
               exit |-> IF to = "exit" THEN ExitCode(env.pipeline, e) ELSE -1]

Called(name, e, step) ==
    Ran(name, e, Append(run.calls, Entry(step, DsOf(pc))), After(e, NextOf(pc)),
        run.written, run.manifested)

\* df_raw = pd.read_csv(csv_path, ...)
ReadCsv ==
    /\ pc = "start" /\ env.pipeline = "csv"
    /\ \E e \in {NoErr, Raise("FileNotFoundError", <<>>), Raise("ParserError", <<>>)} :
         /\ heap' = IF e = NoErr THEN [heap EXCEPT ![1] = env.raw] ELSE heap
         /\ Called("read_csv", e, "fetch")
    /\ UNCHANGED <<arg, df0, ret, schema, fs, mf, fs0, mf0, env>>

Normalize ==
    /\ pc = "normalize"
    /\ heap' = normalize_columns(heap, 1, 2, ColNorm)
    /\ Called("normalize_columns", NoErr, "rename")
    /\ UNCHANGED <<arg, df0, ret, schema, fs, mf, fs0, mf0, env>>

Fetched(name, r) ==
    /\ heap' = r.heap
    /\ Ran(name, r.err, r.calls, After(r.err, NextOf(pc)), run.written, run.manifested)

FindUsers ==
    /\ pc = "start" /\ env.pipeline = "api"
    /\ \E outcomes \in [1..(env.retries + 1) -> {"200", "503", "timeout"}] :
         Fetched("find_users",
                 find_users(heap, 1, outcomes, env.retries, env.users, run.calls))
    /\ UNCHANGED <<arg, df0, ret, schema, fs, mf, fs0, mf0, env>>

FindPosts ==
    /\ pc = "find_posts"
    /\ \E outcomes \in [1..(env.retries + 1) -> {"200", "503", "timeout"}] :
         Fetched("find_posts_by_user_id",
                 find_posts_by_user_id(heap, 2, outcomes, env.retries, env.posts,
                                       run.calls))
    /\ UNCHANGED <<arg, df0, ret, schema, fs, mf, fs0, mf0, env>>

Ensure ==
    /\ pc \in {"ensure", "ensure_users", "ensure_posts"}
    /\ Called("ensure_required_columns",
              ensure_required_columns(heap[RefOf(pc)], SchemaOf(pc).required), "ensure")
    /\ UNCHANGED <<heap, arg, df0, ret, schema, fs, mf, fs0, mf0, env>>

CastsDone(r) == heap' = r.heap /\ Called("apply_casts", r.err, "cast")

Casts ==
    /\ pc = "cast"
    /\ CastsDone(apply_casts(heap, 2, schema.integer_fields, schema.string_fields,
                             schema.float_fields))
    /\ UNCHANGED <<arg, df0, ret, schema, fs, mf, fs0, mf0, env>>

Check ==
    /\ pc \in {"check", "check_users", "check_posts"}
    /\ Called("check_dtypes",
              check_dtypes(heap[RefOf(pc)], SchemaOf(pc).integer_fields,
                           SchemaOf(pc).string_fields, SchemaOf(pc).float_fields),
              "check")
    /\ UNCHANGED <<heap, arg, df0, ret, schema, fs, mf, fs0, mf0, env>>

\* row = users_df.loc[...]; sys.exit(2) or user_id = int(...)
SelectTarget ==
    /\ pc = "target"
    /\ Ran("target", TargetUser(heap[1], env.alvo), run.calls,
           After(TargetUser(heap[1], env.alvo), NextOf(pc)), run.written, run.manifested)
    /\ UNCHANGED <<heap, arg, df0, ret, schema, fs, mf, fs0, mf0, env>>

\* the preview printed: of the one DataFrame (CSV), of users and posts (API)
ShowPreview ==
    /\ pc = "preview"
    /\ \/ /\ env.pipeline = "csv"
          /\ Called("preview", Preview(heap[2]), "preview")
       \/ /\ env.pipeline = "api"
          /\ Ran("preview", NoErr,
                 run.calls \o <<Entry("preview", "users"), Entry("preview", "posts")>>,
                 NextOf(pc), run.written, run.manifested)
    /\ UNCHANGED <<heap, arg, df0, ret, schema, fs, mf, fs0, mf0, env>>

SaveDone(r) ==
    /\ fs' = r.fs
    /\ Ran("save_txt", r.err, Append(run.calls, Entry("save", DsOf(pc))),
           AfterSave(r.err, NextOf(pc)),
           IF r.err = NoErr THEN run.written \cup {PathOf(pc)} ELSE run.written,
           run.manifested)

\* save_txt(...), or makedirs and df.to_csv(out_path, ...) in ingestao_csv.main
Save ==
    /\ pc \in {"save", "save_users", "save_posts"}
    /\ \E io \in {"ok", "open", "write"} :
         \E cut \in {0, Len(to_csv(heap[RefOf(pc)], ";", env.cr)) \div 2} :
            SaveDone(save_txt(fs, heap[RefOf(pc)], PathOf(pc), ";", env.cr, io, cut))
    /\ UNCHANGED <<heap, arg, df0, ret, schema, mf, fs0, mf0, env>>

ManifestDone(r) ==
    /\ fs' = r.fs
    /\ mf' = r.mf
    /\ Ran("write_metadata_from_df", r.err,
           Append(run.calls, Entry("manifest", DsOf(pc))), After(r.err, NextOf(pc)),
           run.written,
           IF r.err = NoErr THEN run.manifested \cup {PathOf(pc)} ELSE run.manifested)

WriteManifest ==
    /\ pc \in {"manifest", "manifest_users", "manifest_posts"}
    /\ \E io \in {"ok", "open", "dump"} :
         ManifestDone(write_metadata_from_df(fs, mf, heap[RefOf(pc)], PathOf(pc), TRUE,
                                             ChunkSize, io))
    /\ UNCHANGED <<heap, arg, df0, ret, schema, fs0, mf0, env>>

Next ==
    \/ ReadCsv \/ Normalize \/ FindUsers \/ FindPosts \/ Ensure \/ Casts \/ Check
    \/ SelectTarget \/ ShowPreview \/ Save \/ WriteManifest

Spec == Init /\ [][Next]_vars

----------------------------------------------------------------------------
(* Claims *)

Range(q) == {q[i] : i \in 1..Len(q)}

\* the output path of a dataset of the call log
DsPath(ds) == IF ds = "csv" THEN OutPath("out") ELSE OutPath(ds)

\* C1: when a run of either pipeline ends, whatever step failed, every data
\* file the run wrote has its manifest, written by the same run.
C1_NoDataFileWithoutManifest ==
    pc = "exit" =>
        \A p \in run.written : p \in run.manifested /\ mf[p].complete

\* the call log has a data-file write to p that succeeded before call i
SavedBefore(p, i) ==
    /\ p \in run.written
    /\ \E j \in 1..(i - 1) : run.calls[j].step = "save" /\ DsPath(run.calls[j].ds) = p

\* C2: a manifest is written only after the data file of the same path was
\* written successfully in the same run: no manifest for a path whose data
\* file the run did not write.
C2_ManifestAfterDataFile ==
    /\ \A i \in 1..Len(run.calls) :
         run.calls[i].step = "manifest" => SavedBefore(DsPath(run.calls[i].ds), i)
    /\ \A p \in Paths :
         (mf[p] # mf0[p] \/ p \in run.manifested) =>
            /\ p \in run.written
            /\ fs[p] # NoFile
            /\ fs[p] # fs0[p]

C2_Witness ==
    /\ pc = "exit"
    /\ env.pipeline = "api"
    /\ run.manifested = {"users", "posts"}
    /\ fs0 = OlderFs
    /\ mf["users"].complete /\ mf["posts"].complete

FixedOrder ==
    <<"fetch", "rename", "ensure", "cast", "check", "preview", "save", "manifest">>

StepsOf(ds) ==
    LET mine == SelectSeq(run.calls, LAMBDA c : c.ds = ds)
    IN  [i \in 1..Len(mine) |-> mine[i].step]

\* C3: every run takes, for each dataset, the steps fetch, rename,
\* ensure_required_columns, casts, check_dtypes, preview, data-file write,
\* manifest write in this order; no cast comes before ensure_required_columns.
C3_FixedStepOrder ==
    \A ds \in {"csv", "users", "posts"} :
        /\ Len(StepsOf(ds)) <= Len(FixedOrder)
        /\ StepsOf(ds) = SubSeq(FixedOrder, 1, Len(StepsOf(ds)))

\* the exit codes of an entry point, by kind of failure
CodeOf(kind) == ExitCode(env.pipeline, Raise(kind, <<>>))

\* C10: an entry point exits with 0 only when the run succeeded; the codes of a
\* schema failure, of another runtime failure and of "target not found" are
\* not 0 and differ from each other.
C10_ExitCodes ==
    pc = "exit" =>
        /\ run.exit = 0 <=> err = NoErr
        /\ Cardinality({0, CodeOf("SchemaError"), CodeOf("TypeError"),
                        CodeOf("SystemExit")}) = 4

ManifestRan == op \in {"write_metadata_from_df", "write_manifest_from_file"}

\* C4 as claimed: a manifest call on a path that does not exist fails with a
\* not-found error and changes no file.
C4_MissingPathNotFound ==
    (ManifestRan /\ fs0[env.path] = NoFile) =>
        /\ err.kind = "FileNotFoundError"
        /\ fs = fs0
        /\ mf = mf0

\* C4, amended: a manifest call on a path that does not exist fails and changes
\* no file; the error is the not-found error, except that write_metadata_from_df
\* raises RuntimeError when pandas could not be imported.
C4_MissingPathFails ==
    (ManifestRan /\ fs0[env.path] = NoFile) =>
        /\ err.kind = (IF op = "write_metadata_from_df" /\ ~env.pd
                       THEN "RuntimeError" ELSE "FileNotFoundError")
        /\ fs = fs0
        /\ mf = mf0

C4_Witness ==
    /\ op = "write_metadata_from_df"
    /\ fs0[env.path] = NoFile
    /\ env.pd
    /\ err.kind = "FileNotFoundError"
    /\ mf0[env.path] = NoManifest

\* the MD5 of a whole byte string, in one update
Md5Of(content) == hexdigest(md5_update(md5_new, content, 1))

\* C9: a manifest written for a file (in particular one written by save_txt
\* just before, with no write in between) records the MD5 of the complete
\* content of the file and its size in bytes, whatever the length of the file.
C9_ManifestHashesWholeFile ==
    (ManifestRan /\ err = NoErr) =>
        /\ fs = fs0
        /\ env.saved => fs[env.path] = to_csv(heap[arg], env.wsep, env.cr)
        /\ mf[env.path].core.hash_md5 = Md5Of(fs[env.path])
        /\ mf[env.path].core.tamanho_bytes = Len(fs[env.path])

C9_Witness ==
    /\ op = "write_metadata_from_df"
    /\ env.saved
    /\ err = NoErr
    /\ Len(fs[env.path]) > 2 * ChunkSize
    /\ Len(fs[env.path]) % ChunkSize # 0
    /\ mf[env.path].complete

CastRan == op \in {"apply_casts", "clean_dataframe"}

\* the fields a cast call treats as integer only
IntegerOnly ==
    {c \in Range(schema.integer_fields) :
        /\ HasCol(df0, c)
        /\ c \notin Range(schema.float_fields)
        /\ c \notin Range(schema.string_fields)}

\* what a cell parses to, when that is a whole number
Parsed(c) == IF IsWhole(ToNumeric(c)) THEN Int_(ToNumeric(c).n) ELSE Null

\* C5: for every column declared integer, apply_casts and clean_dataframe never
\* raise because of a cell value: a cell that parses as an integer becomes that
\* integer, every other cell (empty, text, "12.5") becomes null.
C5_IntegerCastNeverRaises ==
    CastRan =>
        /\ err = NoErr
        /\ \A c \in IntegerOnly :
             LET before == GetCol(df0, c).vals
                 after == GetCol(heap[arg], c).vals
             IN  \A i \in 1..Len(before) :
                    after[i] = Parsed(before[i])

\* the k-th index of `required` whose name is not a column of df
MissingIndex(df, required, k) ==
    CHOOSE i \in 1..Len(required) :
        /\ ~HasCol(df, required[i])
        /\ Cardinality({j \in 1..(i - 1) : ~HasCol(df, required[j])}) = k - 1

\* C6: ensure_required_columns raises SchemaError iff a required name is not a
\* column; the error lists every missing name and no present one, in the order
\* of the required list; the dataset is left unchanged.
C6_RequiredColumns ==
    op = "ensure_required_columns" =>
        LET df == heap[arg]
            absent == {i \in 1..Len(schema.required) : ~HasCol(df, schema.required[i])}
        IN  /\ err.kind = (IF absent # {} THEN "SchemaError" ELSE "none")
            /\ Len(err.cols) = Cardinality(absent)
            /\ \A k \in 1..Len(err.cols) :
                 err.cols[k] = schema.required[MissingIndex(df, schema.required, k)]
            /\ heap = [o \in 1..2 |-> IF o = arg THEN df0 ELSE NoDf]

C6_Witness ==
    /\ op = "ensure_required_columns"
    /\ err.kind = "SchemaError"
    /\ Len(err.cols) = 2
    /\ Len(schema.required) = 3

\* the declared columns present in df whose dtype is not the declared one
Mismatching(df) ==
    {c \in Range(schema.integer_fields) : HasCol(df, c) /\ GetCol(df, c).dtype # "Int64"}
    \cup {c \in Range(schema.string_fields) :
            HasCol(df, c) /\ GetCol(df, c).dtype # "object"}
    \cup {c \in Range(schema.float_fields) :
            HasCol(df, c) /\ GetCol(df, c).dtype \notin {"float64", "float32"}}

Declared ==
    Range(schema.integer_fields) \cup Range(schema.string_fields)
    \cup Range(schema.float_fields)

\* C7: check_dtypes raises one SchemaError iff some declared column that is
\* present has a dtype other than the declared one; the error names every such
\* column; declared columns that are absent never fail and are never named.
C7_CheckDtypes ==
    op = "check_dtypes" =>
        LET df == heap[arg]
        IN  /\ err.kind = (IF Mismatching(df) # {} THEN "SchemaError" ELSE "none")
            /\ Range(err.cols) = Mismatching(df)
            /\ \A c \in Declared : ~HasCol(df, c) => c \notin Range(err.cols)

C7_Witness ==
    /\ op = "check_dtypes"
    /\ err.kind = "SchemaError"
    /\ Cardinality(Range(err.cols)) >= 2
    /\ \E c \in Declared : ~HasCol(heap[arg], c)

\* C8: apply_casts (and clean_dataframe) leave the caller's dataset as it was
\* and return a separate new dataset.
C8_CastLeavesInputUnchanged ==
    CastRan => /\ heap[arg] = df0
               /\ err = NoErr => ret # arg

\* fetch i of the call log met no 200: every GET attempt failed
AllFailed(i) == \A k \in 1..Len(run.calls[i].seen) : run.calls[i].seen[k] # "200"

\* the fetches of the API pipeline in the call log
ApiFetches ==
    {i \in 1..Len(run.calls) :
        run.calls[i].step = "fetch" /\ run.calls[i].ds \in {"users", "posts"}}

\* C11: safe_get makes at most retries+1 GET attempts and returns at the first
\* 200 without a further attempt; when every attempt fails (another status, a
\* timeout or a connection error) it has made retries+1 attempts and raises
\* ApiError, which ends the run at once: no later step runs and the run has
\* written no data file and no manifest.
C11_FetchFailureAborts ==
    \A i \in ApiFetches :
        /\ run.calls[i].n = Len(run.calls[i].seen)
        /\ run.calls[i].n >= 1
        /\ run.calls[i].n <= env.retries + 1
        /\ \A k \in 1..Len(run.calls[i].seen) :
              run.calls[i].seen[k] = "200" => k = Len(run.calls[i].seen)
        /\ AllFailed(i) =>
              /\ run.calls[i].n = env.retries + 1
              /\ i = Len(run.calls)
              /\ pc = "exit"
              /\ err = Raise("ApiError", <<>>)
              /\ run.exit # 0
              /\ run.written = {} /\ run.manifested = {}
              /\ fs = fs0 /\ mf = mf0

\* the fetch of the posts fails on the first attempt and on the retry, after
\* the users were fetched and validated, over files of an earlier run
C11_Witness ==
    /\ pc = "exit"
    /\ env.retries = 1
    /\ fs0 = OlderFs
    /\ Len(run.calls) > 1
    /\ run.calls[Len(run.calls)] =
          [step |-> "fetch", ds |-> "posts", n |-> 2, seen |-> <<"503", "timeout">>]
    /\ \E i \in ApiFetches : run.calls[i].ds = "users" /\ run.calls[i].seen = <<"timeout", "200">>

\* write_manifest_from_file returned, with line counting, for an existing file
LinesCounted ==
    op = "write_manifest_from_file" /\ err = NoErr /\ env.line_count

NewlineBytes(content) == Len(SelectSeq(content, LAMBDA c : c = "\n"))

Unterminated(content) == content # <<>> /\ content[Len(content)] # "\n"

\* C12 as stated: schema_stats.linhas is the number of newline bytes of the
\* file, less one when header is true, and is never negative.
C12_RowsAreNewlineBytes ==
    LinesCounted =>
        /\ mf[env.path].schema_stats.linhas =
              NewlineBytes(fs[env.path]) - (IF env.header THEN 1 ELSE 0)
        /\ mf[env.path].schema_stats.linhas >= 0

\* C12: schema_stats.linhas is the number of lines of the file (its newline
\* bytes, and one more when the file is not empty and no newline ends it),
\* less one when header is true and the file is not empty; it is never
\* negative.
C12_RowsAreLines ==
    LinesCounted =>
        /\ mf[env.path].schema_stats.linhas =
              NewlineBytes(fs[env.path])
              + (IF Unterminated(fs[env.path]) THEN 1 ELSE 0)
              - (IF env.header /\ fs[env.path] # <<>> THEN 1 ELSE 0)
        /\ mf[env.path].schema_stats.linhas >= 0

\* a header and one row that no newline ends: one data row is recorded
C12_Witness ==
    /\ LinesCounted
    /\ env.header
    /\ Unterminated(fs[env.path])
    /\ NewlineBytes(fs[env.path]) = 1
    /\ mf[env.path].schema_stats.linhas = 1
    /\ mf[env.path].complete

\* the three field lists of the schema share no name
PairwiseDisjoint ==
    /\ Range(schema.integer_fields) \cap Range(schema.string_fields) = {}
    /\ Range(schema.integer_fields) \cap Range(schema.float_fields) = {}
    /\ Range(schema.string_fields) \cap Range(schema.float_fields) = {}

\* the dtype of column c of the dataset apply_casts returned
CastDtype(c) == GetCol(heap[ret], c).dtype

\* C13: when apply_casts completes on pairwise disjoint field lists,
\* check_dtypes on its result with the same lists does not fail: every
\* declared column present is Int64, object or float64 respectively, whatever
\* the raw cells were.
C13_CastThenCheck ==
    (op = "apply_casts" /\ err = NoErr /\ PairwiseDisjoint) =>
        /\ check_dtypes(heap[ret], schema.integer_fields, schema.string_fields,
                        schema.float_fields) = NoErr
        /\ \A c \in Range(schema.integer_fields) :
              HasCol(heap[ret], c) => CastDtype(c) = "Int64"
        /\ \A c \in Range(schema.string_fields) :
              HasCol(heap[ret], c) => CastDtype(c) = "object"
        /\ \A c \in Range(schema.float_fields) :
              HasCol(heap[ret], c) => CastDtype(c) = "float64"

\* an integer column whose two cells are all unparsable, next to a float
\* column with a missing value
C13_Witness ==
    /\ op = "apply_casts" /\ err = NoErr
    /\ schema.integer_fields = <<"b">> /\ schema.float_fields = <<"a">>
    /\ HasCol(df0, "b") /\ NRows(df0) = 2
    /\ GetCol(df0, "a").vals[1] = Null
    /\ GetCol(heap[ret], "b").vals = <<Null, Null>>
    /\ CastDtype("b") = "Int64" /\ CastDtype("a") = "float64"

====
